---- MODULE Spec2Model ----
(***************************************************************************)
(* Model of the widget layout engine of ImPdf (src/src/index.ts): the tree *)
(* builder (rowWidget, columnWidget, textWidget, imageWidget,              *)
(* popParentWidget) and the layout request saveWidget, which runs          *)
(* calculateWidgetSizes, solveLayoutCollisions, calculateRelativePositions *)
(* and then renders and saves the document.                                *)
(*                                                                         *)
(* The widget tree is an arena: nodes[id] is the widget with identity id,  *)
(* parent and children hold identities, None stands for undefined.         *)
(*                                                                         *)
(* Numbers.  A JavaScript number is modelled by an integer.  Lengths are   *)
(* multiples of Normal; the integers strictly between -Normal/2 and        *)
(* Normal/2 are multiples of Number.MIN_VALUE (subnormal numbers), which a *)
(* sum with a length absorbs, as IEEE-754 addition does.  Lengths that the *)
(* builder is given are multiples of U, chosen so that every quotient the  *)
(* layout takes of a length is again a length; Quot yields the string      *)
(* "inexact" otherwise, which stops TLC, so no rounding of a length is     *)
(* ever modelled silently.                                                 *)
(***************************************************************************)
EXTENDS Integers, Sequences, FiniteSets, TLC

VARIABLES nodes, root, doc, log, error, op, saveCount

vars == <<nodes, root, doc, log, error, op, saveCount>>

\* Bounds of the model.
MaxNodes == 3
MaxSaves == 2

None == 0

RECURSIVE Pow(_, _)
Pow(b, e) == IF e = 0 THEN 1 ELSE b * Pow(b, e - 1)

RECURSIVE Fact(_)
Fact(n) == IF n <= 1 THEN 1 ELSE n * Fact(n - 1)

------------------------------------------------------------------------------
\* Numbers

\* Number.MIN_VALUE, the smallest positive number (index.ts:460).
MIN_VALUE == 1

\* The smallest length; everything smaller in magnitude than Normal/2 is subnormal.
Normal == 16 * MIN_VALUE

\* The unit of the lengths given to the builder.
U == Normal * Pow(Fact(MaxNodes), MaxSaves) * Pow(2, MaxNodes)

\* Number.MAX_VALUE, the default of maxLines (index.ts:243).
MAX_VALUE == 1000000

Abs(x) == IF x < 0 THEN -x ELSE x

IsSubnormal(x) == 2 * Abs(x) < Normal

\* The number nearest to the exact result x of an addition or subtraction:
\* a subnormal part next to a length is rounded away.
Fl(x) ==
  LET r == ((x + Normal \div 2) \div Normal) * Normal
  IN  IF r = 0 THEN x ELSE r

Add(a, b) == Fl(a + b)
Sub(a, b) == Fl(a - b)

Max(a, b) == IF a >= b THEN a ELSE b

\* n / d rounded to the nearest integer, ties to even (n, d integers, d > 0).
RoundHalfEven(n, d) ==
  LET q == n \div d
      r == n % d
  IN  IF 2 * r < d THEN q
      ELSE IF 2 * r > d THEN q + 1
      ELSE IF q % 2 = 0 THEN q ELSE q + 1

RECURSIVE Gcd(_, _)
Gcd(a, b) == IF b = 0 THEN a ELSE Gcd(b, a % b)

\* a * p / q for a number a and integers p >= 0, q > 0: the nearest number for
\* a subnormal a, the exact quotient for a length a.
QuotReduced(a, p, q) ==
  IF IsSubnormal(a) THEN RoundHalfEven(a * p, q)
  ELSE IF a % (q * Normal) = 0 THEN (a \div q) * p
  ELSE "inexact"

\* a * (p / q), as in dimension * (value / 100) and in
\* (violation / count) * (1 - strictness).
Quot(a, p, q) == QuotReduced(a, p \div Gcd(p, q), q \div Gcd(p, q))

------------------------------------------------------------------------------
\* External collaborators (jsPDF)

\* pageDimensions, from getPageDimensions(options.format).
PageW == 12 * U
PageH == 16 * U

\* A text is the number of its words; every word, with the space that
\* follows it, is CharW wide and every line is LineH high.
CharW == 3 * U
LineH == 2 * U

\* getScaledTextDimensions(t): the width and height jsPDF measures for t.
getScaledTextDimensions(t) == [w |-> t * CharW, h |-> LineH]

\* doc.splitTextToSize(t, maxlen): the lines of t, in order, each holding as
\* many words as fit in maxlen and at least one.
RECURSIVE splitTextToSize(_, _)
splitTextToSize(t, maxlen) ==
  LET fit     == IF maxlen < CharW THEN 1 ELSE maxlen \div CharW
      perLine == IF fit > t THEN t ELSE fit
  IN  IF t <= perLine THEN <<t>>
      ELSE <<perLine>> \o splitTextToSize(t - perLine, maxlen)

------------------------------------------------------------------------------
\* Widgets

emptyWidgetData == [kind |-> "none", data |-> 0, wrap |-> FALSE, maxLines |-> 0]

isTextWidget(w) == w.data.kind = "text"

isImageWidget(w) == w.data.kind = "image"

\* A UiSize of an aggregate kind has neither value nor strictness; both are
\* read through "?? 0" wherever the code reads them.
AggregateSize(k) == [kind |-> k, value |-> 0, strictness |-> 0]

\* The root widget the constructor builds.
RootWidget ==
  [parent |-> None, childrenDefined |-> FALSE, children |-> <<>>,
   sizeX |-> [kind |-> "pixels", value |-> PageW, strictness |-> 1],
   sizeY |-> AggregateSize("childrenMax"),
   relativePosition |-> [x |-> 0, y |-> 0],
   dimensions |-> [w |-> 0, h |-> 0],
   layoutDirection |-> "none", padding |-> 0, elementPadding |-> 0,
   data |-> emptyWidgetData]

\* The widget imageWidget builds; width and height are [sizeKind, value].
ImageWidget(width, height, padding) ==
  [parent |-> None, childrenDefined |-> FALSE, children |-> <<>>,
   sizeX |-> [kind |-> width.sizeKind, value |-> width.value, strictness |-> 0],
   sizeY |-> [kind |-> height.sizeKind, value |-> height.value, strictness |-> 0],
   relativePosition |-> [x |-> 0, y |-> 0],
   dimensions |-> [w |-> 0, h |-> 0],
   layoutDirection |-> "none", padding |-> padding, elementPadding |-> 0,
   data |-> [kind |-> "image", data |-> 0, wrap |-> FALSE, maxLines |-> 0]]

\* The widget textWidget builds, and the one a line of wrapped text becomes.
TextWidget(t, wrap, maxLines, relY) ==
  [parent |-> None, childrenDefined |-> FALSE, children |-> <<>>,
   sizeX |-> [kind |-> "text", value |-> getScaledTextDimensions(t).w,
              strictness |-> 1],
   sizeY |-> [kind |-> "text", value |-> getScaledTextDimensions(t).h,
              strictness |-> 1],
   relativePosition |-> [x |-> 0, y |-> relY],
   dimensions |-> [w |-> 0, h |-> 0],
   layoutDirection |-> "none", padding |-> 0, elementPadding |-> 0,
   data |-> [kind |-> "text", data |-> t, wrap |-> wrap, maxLines |-> maxLines]]

\* The widget rowWidget builds.
RowWidget(fillPercent, padding, elementPadding) ==
  [parent |-> None, childrenDefined |-> FALSE, children |-> <<>>,
   sizeX |-> [kind |-> "percentOfParent", value |-> fillPercent, strictness |-> 0],
   sizeY |-> AggregateSize("childrenMax"),
   relativePosition |-> [x |-> 0, y |-> 0],
   dimensions |-> [w |-> 0, h |-> 0],
   layoutDirection |-> "row", padding |-> padding,
   elementPadding |-> elementPadding,
   data |-> emptyWidgetData]

\* The widget columnWidget builds.
ColumnWidget(fillPercent, padding, elementPadding) ==
  [parent |-> None, childrenDefined |-> FALSE, children |-> <<>>,
   sizeX |-> AggregateSize("childrenMax"),
   sizeY |-> [kind |-> "percentOfParent", value |-> fillPercent, strictness |-> 0],
   relativePosition |-> [x |-> 0, y |-> 0],
   dimensions |-> [w |-> 0, h |-> 0],
   layoutDirection |-> "col", padding |-> padding,
   elementPadding |-> elementPadding,
   data |-> emptyWidgetData]

\* pushChildWidget(w): w becomes the last child of the cursor widget.  The
\* result is the arena; the new widget has the identity Len(ns) + 1.
pushChildWidget(ns, cursor, w) ==
  LET id == Len(ns) + 1
  IN  Append([ns EXCEPT ![cursor].childrenDefined = TRUE,
                        ![cursor].children = Append(@, id)],
             [w EXCEPT !.parent = cursor])

------------------------------------------------------------------------------
\* The inputs the builder is given

RowOptions ==
  { [fillPercent |-> 100, padding |-> 2 * U, elementPadding |-> 1 * U],
    [fillPercent |-> 50,  padding |-> 0,     elementPadding |-> 0] }

ColumnOptions ==
  { [fillPercent |-> 100, padding |-> 2 * U, elementPadding |-> 1 * U] }

ImageOptions ==
  { [width  |-> [sizeKind |-> "percentOfParent", value |-> 50],
     height |-> [sizeKind |-> "pixels", value |-> 5 * U],
     padding |-> 0],
    [width  |-> [sizeKind |-> "pixels", value |-> 8 * U],
     height |-> [sizeKind |-> "percentOfParent", value |-> 100],
     padding |-> 0] }

TextOptions ==
  { [t |-> 1, wrap |-> TRUE,  maxLines |-> MAX_VALUE],
    [t |-> 5, wrap |-> TRUE,  maxLines |-> 2],
    [t |-> 5, wrap |-> FALSE, maxLines |-> MAX_VALUE] }

------------------------------------------------------------------------------
\* The builder

Init ==
  /\ nodes = <<RootWidget>>
  /\ root = 1
  /\ doc = <<>>
  /\ log = <<>>
  /\ error = "none"
  /\ op = "constructor"
  /\ saveCount = 0

CanInsert == Len(nodes) < MaxNodes + 1

\* pushParentWidget(w): w becomes a child of the cursor widget and the cursor.
pushParentWidget(w) ==
  /\ nodes' = pushChildWidget(nodes, root, w)
  /\ root' = Len(nodes) + 1

rowWidget ==
  /\ CanInsert
  /\ \E o \in RowOptions :
       pushParentWidget(RowWidget(o.fillPercent, o.padding, o.elementPadding))
  /\ op' = "rowWidget"
  /\ UNCHANGED <<doc, log, error, saveCount>>

columnWidget ==
  /\ CanInsert
  /\ \E o \in ColumnOptions :
       pushParentWidget(ColumnWidget(o.fillPercent, o.padding, o.elementPadding))
  /\ op' = "columnWidget"
  /\ UNCHANGED <<doc, log, error, saveCount>>

textWidget ==
  /\ CanInsert
  /\ \E o \in TextOptions :
       nodes' = pushChildWidget(nodes, root,
                  TextWidget(o.t, o.wrap, o.maxLines,
                             getScaledTextDimensions(o.t).h))
  /\ op' = "textWidget"
  /\ UNCHANGED <<root, doc, log, error, saveCount>>

imageWidget ==
  /\ CanInsert
  /\ \E o \in ImageOptions :
       nodes' = pushChildWidget(nodes, root,
                  ImageWidget(o.width, o.height, o.padding))
  /\ op' = "imageWidget"
  /\ UNCHANGED <<root, doc, log, error, saveCount>>

\* popParentWidget that returns to the top of the tree.
popParentWidget_toTop ==
  /\ root' = 1
  /\ op' = "popParentWidget"
  /\ UNCHANGED <<nodes, doc, log, error, saveCount>>

\* popParentWidget(): the cursor moves to its parent, if it has one.
popParentWidget ==
  /\ root' = IF nodes[root].parent = None THEN root ELSE nodes[root].parent
  /\ op' = "popParentWidget"
  /\ UNCHANGED <<nodes, doc, log, error, saveCount>>

------------------------------------------------------------------------------
\* Size resolution

RECURSIVE calculateWidgetSizes(_, _), SizesOfChildren(_, _, _)

\* children.reduce((acc, cur) => acc + cur.dimensions[d], 0)
RECURSIVE ChildrenSum(_, _, _, _)
ChildrenSum(ns, kids, i, d) ==
  IF i = 0 THEN 0
  ELSE Add(ChildrenSum(ns, kids, i - 1, d), ns[kids[i]].dimensions[d])

\* children.reduce((acc, cur) => Math.max(acc, cur.dimensions[d]), Number.MIN_VALUE)
RECURSIVE ChildrenMax(_, _, _, _)
ChildrenMax(ns, kids, i, d) ==
  IF i = 0 THEN MIN_VALUE
  ELSE Max(ChildrenMax(ns, kids, i - 1, d), ns[kids[i]].dimensions[d])

\* The dimension of w on one axis before its children are resolved: size is
\* w.sizeX or w.sizeY, d is "w" or "h", parentSize is the size of the parent on
\* the same axis.
StandaloneSize(ns, w, size, d, parentSize) ==
  IF size.kind \in {"pixels", "text"} THEN size.value
  ELSE IF /\ size.kind = "percentOfParent"
          /\ w.parent # None
          /\ parentSize.kind # "childrenSum"
       THEN Quot(ns[w.parent].dimensions[d], size.value, 100)
  ELSE w.dimensions[d]

\* The dimension of w on one axis after its children are resolved.
AggregateDimension(ns, w, size, d) ==
  IF size.kind = "childrenSum"
    THEN IF w.childrenDefined THEN ChildrenSum(ns, w.children, Len(w.children), d)
         ELSE 0
  ELSE IF size.kind = "childrenMax"
    THEN IF w.childrenDefined THEN ChildrenMax(ns, w.children, Len(w.children), d)
         ELSE 0
  ELSE w.dimensions[d]

\* for (i ...) w.children[i] = this.calculateWidgetSizes(w.children[i])
SizesOfChildren(ns, kids, i) ==
  IF i > Len(kids) THEN ns
  ELSE SizesOfChildren(calculateWidgetSizes(ns, kids[i]), kids, i + 1)

\* calculateWidgetSizes(w): the arena after the sizes of w and of everything
\* below it are resolved.
calculateWidgetSizes(ns, id) ==
  LET w  == ns[id]
      px == IF w.parent = None THEN w.sizeX ELSE ns[w.parent].sizeX
      py == IF w.parent = None THEN w.sizeY ELSE ns[w.parent].sizeY
      n1 == [ns EXCEPT ![id].dimensions =
               [w |-> StandaloneSize(ns, w, w.sizeX, "w", px),
                h |-> StandaloneSize(ns, w, w.sizeY, "h", py)]]
      n2 == IF w.childrenDefined THEN SizesOfChildren(n1, w.children, 1) ELSE n1
  IN  [n2 EXCEPT ![id].dimensions =
         [w |-> AggregateDimension(n2, n2[id], w.sizeX, "w"),
          h |-> AggregateDimension(n2, n2[id], w.sizeY, "h")]]

------------------------------------------------------------------------------
\* Collision solving

\* totalChildDimensions: the reduce over w.children, which adds elementPadding
\* before every child but the first on the axis the children are laid out on.
RECURSIVE totalChildDimensions(_, _, _)
totalChildDimensions(ns, id, i) ==
  IF i = 0 THEN [w |-> 0, h |-> 0]
  ELSE LET acc == totalChildDimensions(ns, id, i - 1)
           cur == ns[ns[id].children[i]]
           row == ns[id].layoutDirection = "row"
       IN  [w |-> Add(Add(acc.w, cur.dimensions.w),
                      IF row /\ i > 1 THEN ns[id].elementPadding ELSE 0),
            h |-> Add(Add(acc.h, cur.dimensions.h),
                      IF ~row /\ i > 1 THEN ns[id].elementPadding ELSE 0)]

\* childSizeDecrease of a child with the given size on the axis of the violation.
childSizeDecrease(violation, count, size) ==
  Quot(violation, 1 - size.strictness, count)

\* The loop that decreases every child's width by its childSizeDecrease.
RECURSIVE DecreaseWidths(_, _, _, _)
DecreaseWidths(ns, kids, i, violation) ==
  IF i > Len(kids) THEN ns
  ELSE DecreaseWidths(
         [ns EXCEPT ![kids[i]].dimensions.w =
            Sub(@, childSizeDecrease(violation, Len(kids), ns[kids[i]].sizeX))],
         kids, i + 1, violation)

\* The loop that decreases every child's height by its childSizeDecrease.
RECURSIVE DecreaseHeights(_, _, _, _)
DecreaseHeights(ns, kids, i, violation) ==
  IF i > Len(kids) THEN ns
  ELSE DecreaseHeights(
         [ns EXCEPT ![kids[i]].dimensions.h =
            Sub(@, childSizeDecrease(violation, Len(kids), ns[kids[i]].sizeY))],
         kids, i + 1, violation)

\* solveLayoutCollisions(w): the arena after the children of w are shrunk.
solveLayoutCollisions(ns, id) ==
  IF ~ns[id].childrenDefined THEN ns
  ELSE LET w     == ns[id]
           total == totalChildDimensions(ns, id, Len(w.children))
           n1    == IF total.w > w.dimensions.w
                    THEN DecreaseWidths(ns, w.children, 1,
                                        Sub(total.w, w.dimensions.w))
                    ELSE ns
       IN  IF total.h > w.dimensions.h
           THEN DecreaseHeights(n1, w.children, 1, Sub(total.h, w.dimensions.h))
           ELSE n1

------------------------------------------------------------------------------
\* Position resolution

\* The configured page inset.
minX == 0
minY == 0

RECURSIVE calculateRelativePositions(_, _, _), PositionsOfChildren(_, _, _)

\* parent.children.find(child => child.relativePosition.y + child.dimensions.h
\* <= newY)?.relativePosition.x ?? 0
RECURSIVE FindX(_, _, _, _)
FindX(ns, kids, i, newY) ==
  IF i > Len(kids) THEN 0
  ELSE LET child == ns[kids[i]]
       IN  IF Add(child.relativePosition.y, child.dimensions.h) <= newY
           THEN child.relativePosition.x
           ELSE FindX(ns, kids, i + 1, newY)

\* The lines of wrappedText that become widgets: the loop leaves at the line
\* with index maxLines - 1.
KeptLines(wrappedText, maxLines) ==
  LET limit == IF maxLines - 1 < 0 THEN 0 ELSE maxLines - 1
      count == IF Len(wrappedText) < limit THEN Len(wrappedText) ELSE limit
  IN  SubSeq(wrappedText, 1, count)

\* The column that replaces the wrapped text widget w, with the identity
\* Len(ns) + 1, followed by the widgets of its lines; sizes resolved.
WrapColumn(ns, w, lines) ==
  LET colId == Len(ns) + 1
      col   == [parent |-> w.parent, childrenDefined |-> TRUE,
                children |-> [i \in 1..Len(lines) |-> colId + i],
                sizeX |-> AggregateSize("childrenMax"),
                sizeY |-> AggregateSize("childrenSum"),
                relativePosition |-> w.relativePosition,
                dimensions |-> [w |-> 0, h |-> 0],
                layoutDirection |-> "col", padding |-> 0, elementPadding |-> 0,
                data |-> emptyWidgetData]
      kids  == [i \in 1..Len(lines) |->
                  [TextWidget(lines[i], FALSE, MAX_VALUE, 0)
                     EXCEPT !.parent = colId]]
  IN  calculateWidgetSizes(ns \o <<col>> \o kids, colId)

\* for (i ...) w.children[i] = this.calculateRelativePositions(w.children[i], i);
\* i counts from 0 as in the code.
PositionsOfChildren(ns, id, i) ==
  IF i >= Len(ns[id].children) THEN [ns |-> ns, w |-> id, thrown |-> FALSE]
  ELSE LET r == calculateRelativePositions(ns, ns[id].children[i + 1], i)
       IN  IF r.thrown THEN r
           ELSE PositionsOfChildren(
                  [r.ns EXCEPT ![id].children[i + 1] = r.w], id, i + 1)

\* relativePositionOf with this.maxX where the code reads this.minX.
relativePositionOf_maxX(ns, w, index) ==
  IF w.parent = None THEN [x |-> PageW, y |-> minY]
  ELSE IF index = 0
    THEN [x |-> Add(w.padding, w.relativePosition.x),
          y |-> Add(w.padding, w.relativePosition.y)]
  ELSE LET sibling == ns[ns[w.parent].children[index]]
       IN  IF ns[w.parent].layoutDirection = "row"
           THEN [x |-> Add(Add(sibling.relativePosition.x, sibling.dimensions.w),
                           ns[w.parent].elementPadding),
                 y |-> sibling.relativePosition.y]
           ELSE [x |-> sibling.relativePosition.x,
                 y |-> Add(Add(sibling.relativePosition.y, sibling.dimensions.h),
                           ns[w.parent].elementPadding)]

\* relativePositionOf without the parent's elementPadding between siblings.
relativePositionOf_noGap(ns, w, index) ==
  IF w.parent = None THEN [x |-> minX, y |-> minY]
  ELSE IF index = 0
    THEN [x |-> Add(w.padding, w.relativePosition.x),
          y |-> Add(w.padding, w.relativePosition.y)]
  ELSE LET sibling == ns[ns[w.parent].children[index]]
       IN  IF ns[w.parent].layoutDirection = "row"
           THEN [x |-> Add(sibling.relativePosition.x, sibling.dimensions.w),
                 y |-> sibling.relativePosition.y]
           ELSE [x |-> sibling.relativePosition.x,
                 y |-> Add(sibling.relativePosition.y, sibling.dimensions.h)]

\* The relativePosition a widget is given first: the page inset for a widget
\* without parent, its padding added to what it had for a first child, and
\* for a later child the place after the sibling before it, on the axis its
\* parent lays its children out on.  index counts from 0 as in the code; the
\* caller throws for a widget with a parent and a negative index.
relativePositionOf(ns, w, index) ==
  IF w.parent = None THEN [x |-> minX, y |-> minY]
  ELSE IF index = 0
    THEN [x |-> Add(w.padding, w.relativePosition.x),
          y |-> Add(w.padding, w.relativePosition.y)]
  ELSE LET sibling == ns[ns[w.parent].children[index]]
       IN  IF ns[w.parent].layoutDirection = "row"
           THEN [x |-> Add(Add(sibling.relativePosition.x, sibling.dimensions.w),
                           ns[w.parent].elementPadding),
                 y |-> sibling.relativePosition.y]
           ELSE [x |-> sibling.relativePosition.x,
                 y |-> Add(Add(sibling.relativePosition.y, sibling.dimensions.h),
                           ns[w.parent].elementPadding)]

\* calculateRelativePositions(w, index): the arena after w and everything
\* below it are positioned, the widget that stands for w afterwards, and
\* whether Error("unreachable") was thrown.
calculateRelativePositions(ns, id, index) ==
  LET w       == ns[id]
      hasSib  == w.parent # None /\ index > 0
      sibling == IF hasSib THEN ns[ns[w.parent].children[index]] ELSE w
      thrown  == w.parent # None /\ index < 0
      relativePosition == relativePositionOf(ns, w, index)
      n1 == [ns EXCEPT ![id].relativePosition = relativePosition]
      parentDim ==
        IF w.parent # None
        THEN [w |-> Add(ns[w.parent].relativePosition.x, ns[w.parent].dimensions.w),
              h |-> Add(ns[w.parent].relativePosition.y, ns[w.parent].dimensions.h)]
        ELSE [w |-> PageW, h |-> PageH]
      overflows == Add(relativePosition.x, w.dimensions.w) >= parentDim.w
      newY == Add(relativePosition.y, sibling.dimensions.h)
      newX == FindX(n1, n1[w.parent].children, 1, newY)
      wrappedText == Tail(splitTextToSize(w.data.data,
                                          Sub(parentDim.w, relativePosition.x)))
      r == IF /\ overflows
              /\ hasSib
              /\ ns[w.parent].layoutDirection = "row"
              /\ (~isTextWidget(w) \/ w.data.wrap = FALSE)
           THEN [ns |-> [n1 EXCEPT ![id].relativePosition = [x |-> newX, y |-> newY]],
                 w |-> id]
           ELSE IF overflows /\ isTextWidget(w) /\ w.data.wrap = TRUE
           THEN [ns |-> WrapColumn(n1, n1[id],
                                   KeptLines(wrappedText, w.data.maxLines)),
                 w |-> Len(n1) + 1]
           ELSE [ns |-> n1, w |-> id]
  IN  IF thrown THEN [ns |-> ns, w |-> id, thrown |-> TRUE]
      ELSE IF r.ns[r.w].childrenDefined
        THEN LET c == PositionsOfChildren(r.ns, r.w, 0)
             IN  [ns |-> c.ns, w |-> r.w, thrown |-> c.thrown]
      ELSE [ns |-> r.ns, w |-> r.w, thrown |-> FALSE]

------------------------------------------------------------------------------
\* Rendering and the layout request

RECURSIVE renderWidget(_, _, _), RenderChildren(_, _, _, _)

\* renderWidget(w, parentPosition): the positions it logs and the calls it
\* makes on the document, for w and everything below it.
renderWidget(ns, id, parentPosition) ==
  LET w        == ns[id]
      position == [x |-> Add(parentPosition.x, w.relativePosition.x),
                   y |-> Add(parentPosition.y, w.relativePosition.y)]
      calls    == IF isTextWidget(w)
                    THEN <<[call |-> "text", widget |-> id, x |-> position.x,
                            y |-> Add(position.y, w.sizeY.value)]>>
                  ELSE IF isImageWidget(w)
                    THEN <<[call |-> "addImage", widget |-> id, x |-> position.x,
                            y |-> position.y, w |-> w.dimensions.w,
                            h |-> w.dimensions.h]>>
                  ELSE <<>>
      below    == IF w.childrenDefined
                  THEN RenderChildren(ns, w.children, 1, position)
                  ELSE [log |-> <<>>, doc |-> <<>>]
  IN  [log |-> <<[widget |-> id, position |-> position]>> \o below.log,
       doc |-> calls \o below.doc]

\* for (const child of w.children) this.renderWidget(child, position)
RenderChildren(ns, kids, i, position) ==
  IF i > Len(kids) THEN [log |-> <<>>, doc |-> <<>>]
  ELSE LET first == renderWidget(ns, kids[i], position)
           rest  == RenderChildren(ns, kids, i + 1, position)
       IN  [log |-> first.log \o rest.log, doc |-> first.doc \o rest.doc]

\* calculateWidgetLayout without the throw of position resolution: the cursor
\* is treated as placed wherever it stands.
LayoutOutcome_noThrow(solved, placed, cursor) ==
  [ns |-> placed.ns, root |-> placed.w, thrown |-> FALSE]

\* What calculateWidgetLayout leaves: an Error thrown by position resolution
\* leaves the widgets as collision solving left them.
LayoutOutcome(solved, placed, cursor) ==
  IF placed.thrown THEN [ns |-> solved, root |-> cursor, thrown |-> TRUE]
  ELSE [ns |-> placed.ns, root |-> placed.w, thrown |-> FALSE]

\* this.root = this.calculateRelativePositions(this.root)
PlaceFrom(solved, cursor) ==
  LayoutOutcome(solved, calculateRelativePositions(solved, cursor, -1), cursor)

\* calculateWidgetLayout(): the three phases, from the cursor widget.
calculateWidgetLayout(ns, cursor) ==
  PlaceFrom(solveLayoutCollisions(calculateWidgetSizes(ns, cursor), cursor), cursor)

\* The end of saveWidget after renderWidget: out holds what it logged and
\* drew; doc.save follows.
RenderAndSave(out) ==
  /\ error' = "none"
  /\ log' = out.log
  /\ doc' = doc \o out.doc \o <<[call |-> "save"]>>

\* saveWidget after calculateWidgetLayout: an Error ends the request.
EndRequest(layout) ==
  /\ nodes' = layout.ns
  /\ root' = layout.root
  /\ IF layout.thrown
     THEN /\ error' = "unreachable"
          /\ UNCHANGED <<doc, log>>
     ELSE RenderAndSave(renderWidget(layout.ns, layout.root, [x |-> 0, y |-> 0]))

\* saveWidget(fileName): layout, render, save.
saveWidget ==
  /\ saveCount < MaxSaves
  /\ saveCount' = saveCount + 1
  /\ op' = "saveWidget"
  /\ EndRequest(calculateWidgetLayout(nodes, root))

Next ==
  \/ rowWidget
  \/ columnWidget
  \/ textWidget
  \/ imageWidget
  \/ popParentWidget
  \/ saveWidget

Spec == Init /\ [][Next]_vars

------------------------------------------------------------------------------
\* Vocabulary of the properties

\* The widget the constructor builds: the only one without a parent.
TreeRoot == 1

\* The widgets of the tree: TreeRoot and everything below it.
RECURSIVE Below(_, _)
Below(ns, id) ==
  {id} \cup UNION { Below(ns, ns[id].children[i]) : i \in 1..Len(ns[id].children) }

Widgets == Below(nodes, TreeRoot)

Containers == { c \in Widgets : nodes[c].childrenDefined }

\* The last operation was a layout request that ran to its end.
LaidOut == op = "saveWidget" /\ error = "none"

\* The axis a container lays its children out on, as a field of dimensions
\* and of relativePosition.
MainDim(c) == IF nodes[c].layoutDirection = "row" THEN "w" ELSE "h"
MainSize(c, k) == IF nodes[c].layoutDirection = "row" THEN nodes[k].sizeX
                  ELSE nodes[k].sizeY

\* Sum of the children's main-axis dimensions plus elementPadding between
\* consecutive children.
RECURSIVE MainExtent(_, _)
MainExtent(c, i) ==
  IF i = 0 THEN 0
  ELSE MainExtent(c, i - 1) + nodes[nodes[c].children[i]].dimensions[MainDim(c)]
       + (IF i > 1 THEN nodes[c].elementPadding ELSE 0)

------------------------------------------------------------------------------
\* C1: Shrink conservation.  After a layout request, every container of the
\* tree with a child of main-axis strictness below 1 is at least as long on
\* its main axis as its children and the gaps between them together.
C1_ShrinkConservation ==
  LaidOut =>
    \A c \in Containers :
      (\E i \in 1..Len(nodes[c].children) :
          MainSize(c, nodes[c].children[i]).strictness < 1)
      => MainExtent(c, Len(nodes[c].children)) <= nodes[c].dimensions[MainDim(c)]

------------------------------------------------------------------------------
\* The step is a layout request that ran to its end.
LayoutStep == op' = "saveWidget" /\ error' = "none"

Min(a, b) == IF a <= b THEN a ELSE b

\* The width available to the widget that stands at nodes'[p].children[i]
\* after the step: from its x to the right edge position resolution uses.
AvailableWidth(p, i) ==
  Sub(Add(nodes'[p].relativePosition.x, nodes'[p].dimensions.w),
      nodes'[nodes'[p].children[i]].relativePosition.x)

\* Widget c of the next state is a column of exactly the first n of lines, in
\* order, each no wider than avail and as high as the line is measured.
IsColumnOfLines(c, lines, n, avail) ==
  /\ nodes'[c].layoutDirection = "col"
  /\ nodes'[c].childrenDefined
  /\ Len(nodes'[c].children) = n
  /\ \A j \in 1..n :
       LET leaf == nodes'[nodes'[c].children[j]]
       IN  /\ isTextWidget(leaf)
           /\ leaf.data.data = lines[j]
           /\ leaf.dimensions.w <= avail
           /\ leaf.dimensions.h = getScaledTextDimensions(lines[j]).h

\* C2: Reflow correctness.  A layout request that replaces a wrap-enabled text
\* leaf in its parent's child list replaces it by a column of min(L, maxLines)
\* text leaves, one per line the splitter returns for the available width, in
\* order from the first line on, each no wider than the available width and as
\* high as its line is measured.
C2_ReflowStep ==
  LayoutStep =>
    \A p \in Containers : \A i \in 1..Len(nodes[p].children) :
      LET k     == nodes[p].children[i]
          c     == nodes'[p].children[i]
          avail == AvailableWidth(p, i)
          lines == splitTextToSize(nodes[k].data.data, avail)
      IN  c # k =>
            IsColumnOfLines(c, lines, Min(Len(lines), nodes[k].data.maxLines), avail)

C2_ReflowCorrectness == [][C2_ReflowStep]_vars

------------------------------------------------------------------------------
\* C3: Idempotence of size resolution.  On every tree the builder produces,
\* a second run of calculateWidgetSizes on the tree the first run resolved
\* leaves the dimensions of every widget as the first run left them.
C3_Idempotence ==
  saveCount = 0 =>
    LET once  == calculateWidgetSizes(nodes, TreeRoot)
        twice == calculateWidgetSizes(once, TreeRoot)
    IN  \A k \in 1..Len(nodes) : twice[k].dimensions = once[k].dimensions

------------------------------------------------------------------------------
\* C4: Root anchoring.  After a layout request the relative position of the
\* root is the page inset, and so is the position renderWidget computes for
\* it, whatever the tree holds.
PageInset == [x |-> minX, y |-> minY]

C4_RootAnchoring ==
  op = "saveWidget" =>
    /\ nodes[TreeRoot].relativePosition = PageInset
    /\ LaidOut => log[1] = [widget |-> TreeRoot, position |-> PageInset]

\* A layout request ran to its end on a tree three levels deep.
C4_Witness ==
  /\ LaidOut
  /\ \E k \in Widgets :
       /\ nodes[k].parent # None
       /\ nodes[nodes[k].parent].parent # None
       /\ nodes[k].dimensions.w > 0

------------------------------------------------------------------------------
\* The widgets below the cursor when position resolution is reached, in the
\* arena the two phases before it leave.
AtPositionResolution == solveLayoutCollisions(calculateWidgetSizes(nodes, root), root)

HasZeroDimension(w) == w.dimensions.w = 0 \/ w.dimensions.h = 0

\* C5: Zero dimensions are fatal.  A layout request that reaches position
\* resolution with a widget of width 0 or height 0 ends with an error and
\* calls neither a draw nor save on the document; so after a layout request
\* that ran to its end every widget has positive width and height.
C5_ZeroStep ==
  op' = "saveWidget" =>
    /\ (\E k \in Below(AtPositionResolution, root) :
          HasZeroDimension(AtPositionResolution[k]))
       => (error' # "none" /\ doc' = doc)
    /\ error' = "none" =>
         \A k \in Below(nodes', TreeRoot) :
           nodes'[k].dimensions.w > 0 /\ nodes'[k].dimensions.h > 0

C5_ZeroDimensionFatal == [][C5_ZeroStep]_vars

------------------------------------------------------------------------------
\* C6: popParentWidget moves the cursor to its parent and changes no widget;
\* at the widget without parent it changes nothing at all and raises nothing.
C6_PopStep ==
  op' = "popParentWidget" =>
    /\ nodes' = nodes
    /\ root' = IF nodes[root].parent = None THEN root ELSE nodes[root].parent
    /\ error' = error /\ doc' = doc /\ log' = log

C6_PopParentWidget == [][C6_PopStep]_vars

\* popParentWidget has acted with the cursor at the root of a tree that
\* holds a container two levels down: a close below the root and a close at it.
C6_Witness ==
  /\ op = "popParentWidget"
  /\ root = TreeRoot
  /\ \E k \in Containers : nodes[k].parent # None /\ nodes[nodes[k].parent].parent # None

------------------------------------------------------------------------------
\* The arena after size resolution from the cursor, and after collision
\* solving on top of it.
Sized == calculateWidgetSizes(nodes, root)
Solved == solveLayoutCollisions(Sized, root)

\* What remainder-carry takes from the children of the cursor up to the i-th
\* on the main axis: the i-th child takes remaining / (count - i + 1) *
\* (1 - strictness) of what the children before it left of the violation.
RECURSIVE CarriedTotal(_, _)
CarriedShare(violation, i) ==
  LET kids == Sized[root].children
  IN  Quot(Sub(violation, CarriedTotal(violation, i - 1)),
           1 - MainSize(root, kids[i]).strictness, Len(kids) - i + 1)
CarriedTotal(violation, i) ==
  IF i = 0 THEN 0
  ELSE Add(CarriedTotal(violation, i - 1), CarriedShare(violation, i))

\* What the children of the cursor demand on its main axis after size
\* resolution, gaps included.
RECURSIVE Demand(_)
Demand(i) ==
  IF i = 0 THEN 0
  ELSE Add(Add(Demand(i - 1), Sized[Sized[root].children[i]].dimensions[MainDim(root)]),
           IF i > 1 THEN Sized[root].elementPadding ELSE 0)

\* C7: Main-axis shrink carries the remainder.  When the children of the
\* widget the layout starts from demand more than its main-axis dimension,
\* collision solving takes from the i-th child the share of the violation
\* that remainder-carry gives it.
C7_RemainderCarry ==
  LET kids      == Sized[root].children
      d         == MainDim(root)
      violation == Sub(Demand(Len(kids)), Sized[root].dimensions[d])
  IN  (Sized[root].childrenDefined /\ violation > 0) =>
        \A i \in 1..Len(kids) :
          Solved[kids[i]].dimensions[d] =
            Sub(Sized[kids[i]].dimensions[d], CarriedShare(violation, i))

------------------------------------------------------------------------------
IsAggregate(size) == size.kind \in {"childrenSum", "childrenMax"}

\* The nearest ancestor of widget k whose size on the axis (sizeX or sizeY) is
\* not of an aggregate kind, None if there is none.
RECURSIVE ConcreteAncestor(_, _)
ConcreteAncestor(k, axis) ==
  LET p == nodes[k].parent
  IN  IF p = None THEN None
      ELSE IF ~IsAggregate(nodes[p][axis]) THEN p
      ELSE ConcreteAncestor(p, axis)

\* C8: PercentOfParent resolution.  After size resolution of a tree the
\* builder produced, a widget of size PercentOfParent(p) on an axis has p/100
\* of the resolved dimension of its nearest ancestor whose size on that axis
\* is not an aggregate; without such an ancestor the base is the page width
\* on the horizontal axis and on the vertical axis a base that bounds
\* nothing, not smaller than the page height.
C8_PercentOfParent ==
  saveCount = 0 =>
    LET sized == calculateWidgetSizes(nodes, TreeRoot)
    IN  \A k \in Widgets :
          /\ nodes[k].sizeX.kind = "percentOfParent" =>
               LET a == ConcreteAncestor(k, "sizeX")
               IN  sized[k].dimensions.w =
                     Quot(IF a = None THEN PageW ELSE sized[a].dimensions.w,
                          nodes[k].sizeX.value, 100)
          /\ nodes[k].sizeY.kind = "percentOfParent" =>
               LET a == ConcreteAncestor(k, "sizeY")
               IN  IF a = None
                   THEN sized[k].dimensions.h >= Quot(PageH, nodes[k].sizeY.value, 100)
                   ELSE sized[k].dimensions.h =
                          Quot(sized[a].dimensions.h, nodes[k].sizeY.value, 100)

------------------------------------------------------------------------------
\* The sum and the maximum of the dimensions d of the children of widget c.
RECURSIVE SumOfChildren(_, _, _)
SumOfChildren(c, i, d) ==
  IF i = 0 THEN 0
  ELSE SumOfChildren(c, i - 1, d) + nodes[nodes[c].children[i]].dimensions[d]

RECURSIVE MaxOfChildren(_, _, _)
MaxOfChildren(c, i, d) ==
  IF i = 1 THEN nodes[nodes[c].children[1]].dimensions[d]
  ELSE Max(MaxOfChildren(c, i - 1, d), nodes[nodes[c].children[i]].dimensions[d])

TracksChildren(c, size, d) ==
  LET n == Len(nodes[c].children)
  IN  /\ size.kind = "childrenSum" => nodes[c].dimensions[d] = SumOfChildren(c, n, d)
      /\ size.kind = "childrenMax" =>
           nodes[c].dimensions[d] = IF n = 0 THEN 0 ELSE MaxOfChildren(c, n, d)

\* C10: Aggregate sizes track the final children.  After a layout request
\* every widget of size SumOfChildren on an axis has the sum of its
\* children's dimensions on that axis, and every widget of size MaxOfChildren
\* their maximum, 0 without children.
C10_AggregatesTrackChildren ==
  LaidOut =>
    \A c \in Widgets :
      TracksChildren(c, nodes[c].sizeX, "w") /\ TracksChildren(c, nodes[c].sizeY, "h")

------------------------------------------------------------------------------
\* The place chaining gives the child at index i > 1 of container c in arena
\* ns: after the sibling before it on the main axis of c, elementPadding
\* apart, and level with it on the other axis.
Chained(ns, c, i) ==
  LET prev == ns[ns[c].children[i - 1]]
  IN  IF ns[c].layoutDirection = "row"
      THEN [x |-> Add(Add(prev.relativePosition.x, prev.dimensions.w),
                      ns[c].elementPadding),
            y |-> prev.relativePosition.y]
      ELSE [x |-> prev.relativePosition.x,
            y |-> Add(Add(prev.relativePosition.y, prev.dimensions.h),
                      ns[c].elementPadding)]

MovedToNextLine(c, i) ==
  LET k == nodes'[c].children[i]
  IN  /\ nodes'[c].layoutDirection = "row"
      /\ k <= Len(nodes)
      /\ ~(isTextWidget(nodes'[k]) /\ nodes'[k].data.wrap)
      /\ Add(Chained(nodes', c, i).x, nodes'[k].dimensions.w)
           >= Add(nodes'[c].relativePosition.x, nodes'[c].dimensions.w)

\* The children of row c as position resolution sees them when it reaches
\* the child at index i: those before it placed, the child itself on the
\* chain, those after it where the state before the step has them.
SeenAt(c, i, j) ==
  IF j < i THEN [relativePosition |-> nodes'[nodes'[c].children[j]].relativePosition,
                 dimensions |-> nodes'[nodes'[c].children[j]].dimensions]
  ELSE IF j = i THEN [relativePosition |-> Chained(nodes', c, i),
                      dimensions |-> nodes'[nodes'[c].children[i]].dimensions]
  ELSE [relativePosition |-> nodes[nodes[c].children[j]].relativePosition,
        dimensions |-> nodes'[nodes[c].children[j]].dimensions]

\* The x of the first child of c that ends at or above newY, 0 without one.
RECURSIVE NextLineX(_, _, _, _)
NextLineX(c, i, j, newY) ==
  IF j > Len(nodes'[c].children) THEN 0
  ELSE IF Add(SeenAt(c, i, j).relativePosition.y, SeenAt(c, i, j).dimensions.h) <= newY
    THEN SeenAt(c, i, j).relativePosition.x
  ELSE NextLineX(c, i, j + 1, newY)

\* C9 as amended: a layout request that runs to its end leaves every child
\* but the first of every container on the chain, except the children it
\* moves to the next line, which stand below the chain by the height of the
\* sibling before them, at the x of the first child of the row that ends at
\* or above that y.
C9_ChainingStep ==
  LayoutStep =>
    \A c \in Below(nodes', TreeRoot) : \A i \in 2..Len(nodes'[c].children) :
      LET k    == nodes'[c].children[i]
          prev == nodes'[nodes'[c].children[i - 1]]
          newY == Add(Chained(nodes', c, i).y, prev.dimensions.h)
      IN  nodes'[k].relativePosition =
            IF MovedToNextLine(c, i)
            THEN [x |-> NextLineX(c, i, 1, newY), y |-> newY]
            ELSE Chained(nodes', c, i)

------------------------------------------------------------------------------
\* The axis across the one a container lays its children out on.
CrossDim(c) == IF nodes[c].layoutDirection = "row" THEN "h" ELSE "w"

\* Every child of the cursor is, after size resolution, no longer on the
\* cross axis than the cursor itself.
EveryChildFitsAcross ==
  \A i \in 1..Len(Sized[root].children) :
    Sized[Sized[root].children[i]].dimensions[CrossDim(root)]
      <= Sized[root].dimensions[CrossDim(root)]

\* C11: Cross-axis overflow is judged by the maximum.  When every child of
\* the widget the layout starts from fits within it on the cross axis,
\* collision solving changes no child's cross-axis dimension, however many
\* children there are.
C11_CrossAxisByMax ==
  (Sized[root].childrenDefined /\ EveryChildFitsAcross) =>
    \A i \in 1..Len(Sized[root].children) :
      Solved[Sized[root].children[i]].dimensions[CrossDim(root)]
        = Sized[Sized[root].children[i]].dimensions[CrossDim(root)]

------------------------------------------------------------------------------
\* C12: A layout request needs the cursor back at the root.  A saveWidget
\* made while the cursor widget has a parent ends with Error("unreachable")
\* and makes no call on the document, neither a draw nor save, and renders
\* nothing; a saveWidget that runs to its end started with the cursor at the
\* widget without parent.
C12_CursorStep ==
  op' = "saveWidget" =>
    /\ nodes[root].parent # None =>
         (error' = "unreachable" /\ doc' = doc /\ log' = log)
    /\ error' = "none" => (nodes[root].parent = None /\ root = TreeRoot)

C12_CursorAtRoot == [][C12_CursorStep]_vars

\* A layout request was made and refused with a container left open that
\* holds a widget, and no call has reached the document.
C12_Witness ==
  /\ op = "saveWidget"
  /\ error = "unreachable"
  /\ nodes[root].parent # None
  /\ Len(nodes[root].children) > 0
  /\ doc = <<>>

====
